---- MODULE Spec2Model ----
(***************************************************************************)
(* Binance proxy (src/index.js): a stateless HTTP relay.  One inbound      *)
(* request is dispatched by handle(), which either answers locally or      *)
(* issues one upstream fetch() and, when that settles, builds the response *)
(* and hands it to withCORS().  A handler returns to the event loop at     *)
(* each await (req.json(), fetch, resp.text()), so other requests are      *)
(* taken up and served in between.                                         *)
(*                                                                         *)
(* A string is the sequence of its Unicode code points (an unpaired        *)
(* surrogate is a code point in D800..DFFF), a body is the sequence of its *)
(* bytes; encoders, decoders and the URL parser work on these numbers as   *)
(* the platform works on characters and bytes.  String constants are       *)
(* written as code points with their text in the comment above them.       *)
(* Header names and the values of response headers are kept as opaque      *)
(* strings: the code copies and compares them and never looks inside.      *)
(***************************************************************************)
EXTENDS Integers, Sequences, FiniteSets, TLC

VARIABLES pc, request, calls, responses, upstream

vars == <<pc, request, calls, responses, upstream>>

(* ------------------------------ bounds -------------------------------- *)

\* Largest number of query parameters of an inbound /proxyPublic request.
MaxParams == 3

(* --------------------------- JavaScript values ------------------------ *)

\* A value read from a JSON body or returned by searchParams.get: s is the
\* text String(value) gives (for a string, the string itself).
JUndef == [t |-> "undefined", s |-> <<117, 110, 100, 101, 102, 105, 110, 101, 100>>]
JNull == [t |-> "null", s |-> <<110, 117, 108, 108>>]
JStr(s) == [t |-> "string", s |-> s]
\* A number is kept by its decimal text.
JNum(s) == [t |-> "number", s |-> s]
JTrue == [t |-> "boolean", s |-> <<116, 114, 117, 101>>]
JFalse == [t |-> "boolean", s |-> <<102, 97, 108, 115, 101>>]

\* !v : undefined, null, false, "" and 0 are falsy.
Falsy(v) ==
    \/ v.t \in {"undefined", "null"}
    \/ v = JFalse
    \/ v.t = "string" /\ v.s = <<>>
    \/ v.t = "number" /\ v.s = <<48>>

\* String(v), as string concatenation, encodeURIComponent and header values
\* convert.
StringOf(v) == v.s

\* a || b
OrElse(a, b) == IF Falsy(a) THEN b ELSE a

(* ------------------------------ text ---------------------------------- *)

\* The concatenation of a sequence of sequences.
RECURSIVE Concat(_)
Concat(parts) ==
    IF parts = <<>> THEN <<>>
    ELSE IF Len(parts) = 1 THEN parts[1]
    ELSE Concat(SubSeq(parts, 1, Len(parts) \div 2))
            \o Concat(SubSeq(parts, (Len(parts) \div 2) + 1, Len(parts)))

\* Index of the first element of s that is in set, Len(s)+1 when there is none.
IndexOf(s, set) ==
    IF \E i \in 1..Len(s) : s[i] \in set
    THEN CHOOSE i \in 1..Len(s) : s[i] \in set /\ \A j \in 1..(i - 1) : s[j] \notin set
    ELSE Len(s) + 1

\* s.startsWith("/")
StartsWithSlash(s) == Len(s) > 0 /\ s[1] = 47

\* s.includes("?")
IncludesQuestionMark(s) == \E i \in 1..Len(s) : s[i] = 63

\* The pieces of s between occurrences of sep.
RECURSIVE SplitOn(_, _)
SplitOn(s, sep) ==
    LET i == IndexOf(s, {sep})
    IN IF i > Len(s) THEN <<s>>
       ELSE <<SubSeq(s, 1, i - 1)>> \o SplitOn(SubSeq(s, i + 1, Len(s)), sep)

\* s without the elements that are in set.
Without(s, set) == SelectSeq(s, LAMBDA c : c \notin set)

\* s without the elements of set that begin and end it.
Strip(s, set) ==
    IF \A i \in 1..Len(s) : s[i] \in set THEN <<>>
    ELSE SubSeq(s,
                CHOOSE i \in 1..Len(s) : s[i] \notin set /\ \A j \in 1..(i - 1) : s[j] \in set,
                CHOOSE i \in 1..Len(s) : s[i] \notin set /\ \A j \in (i + 1)..Len(s) : s[j] \in set)

IsSurrogate(c) == c >= 55296 /\ c <= 57343
IsDigit(c) == c >= 48 /\ c <= 57
IsAlphanumeric(c) == IsDigit(c) \/ (c >= 65 /\ c <= 90) \/ (c >= 97 /\ c <= 122)
IsHexDigit(c) == IsDigit(c) \/ (c >= 65 /\ c <= 70) \/ (c >= 97 /\ c <= 102)
HexValue(c) == IF c <= 57 THEN c - 48 ELSE IF c <= 70 THEN c - 55 ELSE c - 87
UpperHex(n) == IF n < 10 THEN 48 + n ELSE 55 + n
LowerHex(n) == IF n < 10 THEN 48 + n ELSE 87 + n

(* ------------------------------- UTF-8 -------------------------------- *)

\* The UTF-8 bytes of a code point; an unpaired surrogate is written as
\* U+FFFD.
Utf8Bytes(c) ==
    IF c < 128 THEN <<c>>
    ELSE IF c < 2048 THEN <<192 + (c \div 64), 128 + (c % 64)>>
    ELSE IF IsSurrogate(c) THEN <<239, 191, 189>>
    ELSE IF c < 65536
    THEN <<224 + (c \div 4096), 128 + ((c \div 64) % 64), 128 + (c % 64)>>
    ELSE <<240 + (c \div 262144), 128 + ((c \div 4096) % 64), 128 + ((c \div 64) % 64),
           128 + (c % 64)>>

\* UTF-8 encode: the bytes of a string body.
Utf8Encode(text) == Concat([i \in 1..Len(text) |-> Utf8Bytes(text[i])])

\* The UTF-8 decoder, byte by byte.  A lead byte announces one, two or
\* three continuation bytes; the first of them must lie in a range that
\* depends on the lead byte (no overlong form, no surrogate, nothing above
\* U+10FFFF), the others in 80..BF.
Utf8Need(lead) ==
    IF lead >= 194 /\ lead <= 223 THEN 1
    ELSE IF lead >= 224 /\ lead <= 239 THEN 2
    ELSE IF lead >= 240 /\ lead <= 244 THEN 3
    ELSE 0
Utf8Lower(lead) == IF lead = 224 THEN 160 ELSE IF lead = 240 THEN 144 ELSE 128
Utf8Upper(lead) == IF lead = 237 THEN 159 ELSE IF lead = 244 THEN 143 ELSE 191

\* The byte k places after the lead byte at i continues its character.
Utf8Continues(b, i, k) ==
    /\ i + k <= Len(b)
    /\ b[i + k] >= (IF k = 1 THEN Utf8Lower(b[i]) ELSE 128)
    /\ b[i + k] <= (IF k = 1 THEN Utf8Upper(b[i]) ELSE 191)

\* How many bytes after the lead byte at i the decoder takes into its
\* character before it meets the end or a byte that cannot continue it.
Utf8Taken(b, i) ==
    IF Utf8Need(b[i]) >= 1 /\ Utf8Continues(b, i, 1)
    THEN IF Utf8Need(b[i]) >= 2 /\ Utf8Continues(b, i, 2)
         THEN IF Utf8Need(b[i]) >= 3 /\ Utf8Continues(b, i, 3) THEN 3 ELSE 2
         ELSE 1
    ELSE 0

\* The byte at i was taken into the character of a lead byte before it.  (A
\* lead byte is never a continuation byte, so every lead byte starts a
\* character.)
Utf8Inside(b, i) == \E k \in 1..3 : i - k >= 1 /\ Utf8Taken(b, i - k) >= k

\* What the decoder emits for the byte at i: nothing inside a character,
\* the byte itself for ASCII, the character for a lead byte with all its
\* continuation bytes, U+FFFD for a character cut short and for a byte that
\* can start none.  The byte that cut a character short is read again as
\* the start of the next.
Utf8Emit(b, i) ==
    IF Utf8Inside(b, i) THEN <<>>
    ELSE IF b[i] <= 127 THEN <<b[i]>>
    ELSE IF Utf8Need(b[i]) = 0 \/ Utf8Taken(b, i) < Utf8Need(b[i]) THEN <<65533>>
    ELSE IF Utf8Need(b[i]) = 1 THEN <<((b[i] - 192) * 64) + (b[i + 1] - 128)>>
    ELSE IF Utf8Need(b[i]) = 2
    THEN <<((b[i] - 224) * 4096) + ((b[i + 1] - 128) * 64) + (b[i + 2] - 128)>>
    ELSE <<((b[i] - 240) * 262144) + ((b[i + 1] - 128) * 4096)
            + ((b[i + 2] - 128) * 64) + (b[i + 3] - 128)>>

\* UTF-8 decode without BOM: invalid bytes become U+FFFD.
Utf8Decode(bytes) == Concat([i \in 1..Len(bytes) |-> Utf8Emit(bytes, i)])

\* resp.text(): UTF-8 decode, which first drops a leading byte order mark.
TextDecode(bytes) ==
    Utf8Decode(IF Len(bytes) >= 3 /\ SubSeq(bytes, 1, 3) = <<239, 187, 191>>
               THEN SubSeq(bytes, 4, Len(bytes)) ELSE bytes)

(* -------------------------- percent-encoding -------------------------- *)

\* %XX for every byte, in upper-case hexadecimal.
PercentEncodeBytes(bytes) ==
    Concat([i \in 1..Len(bytes) |->
                <<37, UpperHex(bytes[i] \div 16), UpperHex(bytes[i] % 16)>>])

\* Percent-decode: "%" and two hexadecimal digits give a byte, any other
\* byte is kept.
IsEscape(b, i) ==
    b[i] = 37 /\ i + 2 <= Len(b) /\ IsHexDigit(b[i + 1]) /\ IsHexDigit(b[i + 2])
PercentDecode(b) ==
    Concat([i \in 1..Len(b) |->
                IF IsEscape(b, i) THEN <<(16 * HexValue(b[i + 1])) + HexValue(b[i + 2])>>
                ELSE IF (i > 1 /\ IsEscape(b, i - 1)) \/ (i > 2 /\ IsEscape(b, i - 2))
                THEN <<>>
                ELSE <<b[i]>>])

\* The characters encodeURIComponent keeps: letters, digits and
\* - _ . ! ~ * ' ( )
UriUnreserved(c) == IsAlphanumeric(c) \/ c \in {45, 95, 46, 33, 126, 42, 39, 40, 41}

\* encodeURIComponent(s) throws a URIError when s holds an unpaired
\* surrogate; otherwise every other character becomes the escapes of its
\* UTF-8 bytes.
encodeURIComponentThrows(s) == \E i \in 1..Len(s) : IsSurrogate(s[i])
\* name "URIError", message "URI malformed"
URIError == [name |-> <<85, 82, 73, 69, 114, 114, 111, 114>>, message |-> <<85, 82, 73, 32, 109, 97, 108, 102, 111, 114, 109, 101, 100>>]
encodeURIComponent(s) ==
    Concat([i \in 1..Len(s) |->
                IF UriUnreserved(s[i]) THEN <<s[i]>> ELSE PercentEncodeBytes(Utf8Bytes(s[i]))])

\* The application/x-www-form-urlencoded serializer on one name or value,
\* as URLSearchParams uses it: letters, digits and * - . _ are kept, a space
\* becomes "+", every other byte of the UTF-8 encoding is escaped.
FormEncodeByte(b) ==
    IF IsAlphanumeric(b) \/ b \in {42, 45, 46, 95} THEN <<b>>
    ELSE IF b = 32 THEN <<43>>
    ELSE PercentEncodeBytes(<<b>>)
FormEncode(s) ==
    LET bytes == Utf8Encode(s) IN Concat([i \in 1..Len(bytes) |-> FormEncodeByte(bytes[i])])

\* The application/x-www-form-urlencoded parser on one name or value: "+"
\* is a space, then percent-decode, then UTF-8 decode without BOM.
FormDecode(s) ==
    LET bytes == Utf8Encode(s)
    IN Utf8Decode(PercentDecode([i \in 1..Len(bytes) |->
                                    IF bytes[i] = 43 THEN 32 ELSE bytes[i]]))

(* -------------------------------- URL --------------------------------- *)

\* "https://api.binance.com"
BINANCE == <<104, 116, 116, 112, 115, 58, 47, 47, 97, 112, 105, 46, 98, 105, 110, 97, 110, 99, 101, 46, 99, 111, 109>>

\* What the URL parser does to its input before it reads it: an unpaired
\* surrogate is U+FFFD, the C0 controls and spaces that begin and end the
\* input are stripped, then every tab, LF and CR is removed.
URLInput(s) ==
    Without(Strip([i \in 1..Len(s) |-> IF IsSurrogate(s[i]) THEN 65533 ELSE s[i]], 0..32),
            {9, 10, 13})

\* The percent-encode sets of the URL Standard, beyond the C0 controls and
\* the code points above "~" that all of them hold:
\* path: space " # < > ? ^ ` { }
PathEncodeSet == {32, 34, 35, 60, 62, 63, 96, 123, 125}
\* query of a special scheme: space " # < > '
QueryEncodeSet == {32, 34, 35, 60, 62, 39}
\* fragment: space " < > `
FragmentEncodeSet == {32, 34, 60, 62, 96}

UrlEncode(s, set) ==
    Concat([i \in 1..Len(s) |->
                IF s[i] < 32 \/ s[i] > 126 \/ s[i] \in set
                THEN PercentEncodeBytes(Utf8Bytes(s[i])) ELSE <<s[i]>>])

\* The number of dots a path segment is made of, each written "." or "%2e"
\* in either case; -1 when the segment holds anything else.
RECURSIVE DotCount(_)
DotCount(seg) ==
    IF seg = <<>> THEN 0
    ELSE LET rest == IF seg[1] = 46 THEN Tail(seg) ELSE SubSeq(seg, 4, Len(seg))
         IN IF seg[1] = 46
               \/ (Len(seg) >= 3 /\ seg[1] = 37 /\ seg[2] = 50 /\ seg[3] \in {69, 101})
            THEN (IF DotCount(rest) < 0 THEN -1 ELSE 1 + DotCount(rest))
            ELSE -1
IsSingleDot(seg) == DotCount(seg) = 1
IsDoubleDot(seg) == DotCount(seg) = 2

\* The path state of the URL parser: a ".." segment removes the segment
\* before it, a "." segment is dropped, and either one leaves an empty
\* segment when it ends the path.
RECURSIVE RemoveDotSegments(_, _, _)
RemoveDotSegments(segs, i, out) ==
    IF i > Len(segs) THEN out
    ELSE LET closing == IF i = Len(segs) THEN << <<>> >> ELSE <<>>
         IN IF IsDoubleDot(segs[i])
            THEN RemoveDotSegments(segs, i + 1,
                    (IF out = <<>> THEN out ELSE SubSeq(out, 1, Len(out) - 1)) \o closing)
            ELSE IF IsSingleDot(segs[i])
            THEN RemoveDotSegments(segs, i + 1, out \o closing)
            ELSE RemoveDotSegments(segs, i + 1, Append(out, segs[i]))

RECURSIVE JoinSegments(_)
JoinSegments(segs) ==
    IF segs = <<>> THEN <<>>
    ELSE <<47>> \o UrlEncode(Head(segs), PathEncodeSet) \o JoinSegments(Tail(segs))

\* The path of a URL of a special scheme, given the text between the host
\* and the first "?" or "#": "\" separates segments as "/" does, dot
\* segments are removed, the characters of the path percent-encode set are
\* escaped, and an empty path is "/".
NormalizePath(path) ==
    LET p == [i \in 1..Len(path) |-> IF path[i] = 92 THEN 47 ELSE path[i]]
        segs == SplitOn(IF p = <<>> THEN p ELSE Tail(p), 47)
    IN JoinSegments(RemoveDotSegments(segs, 1, <<>>))

\* new URL(input) for the inputs the handlers build: BINANCE followed by
\* nothing or by text that begins with "/", "\", "?" or "#", so that scheme
\* and host are those of BINANCE.  (Any other input is not parsed here: the
\* handlers test endpoint.startsWith("/") before they build a URL.)
ParseURL(input) ==
    LET s == URLInput(input)
        rest == SubSeq(s, Len(BINANCE) + 1, Len(s))
        f == IndexOf(rest, {35})
        noFrag == SubSeq(rest, 1, f - 1)
        q == IndexOf(noFrag, {63})
    IN CASE /\ Len(s) >= Len(BINANCE) /\ SubSeq(s, 1, Len(BINANCE)) = BINANCE
            /\ (rest = <<>> \/ rest[1] \in {47, 92, 63, 35}) ->
                [path |-> NormalizePath(SubSeq(noFrag, 1, q - 1)),
                 hasQuery |-> q <= Len(noFrag),
                 query |-> UrlEncode(SubSeq(noFrag, q + 1, Len(noFrag)), QueryEncodeSet),
                 hasFragment |-> f <= Len(rest),
                 fragment |-> UrlEncode(SubSeq(rest, f + 1, Len(rest)), FragmentEncodeSet)]

\* url.toString()
SerializeURL(u) ==
    BINANCE \o u.path
        \o (IF u.hasQuery THEN <<63>> \o u.query ELSE <<>>)
        \o (IF u.hasFragment THEN <<35>> \o u.fragment ELSE <<>>)

\* One "name=value" piece of a query string as a [k, v] pair.
ParsePair(piece) ==
    LET e == IndexOf(piece, {61})
    IN [k |-> FormDecode(SubSeq(piece, 1, e - 1)),
        v |-> FormDecode(SubSeq(piece, e + 1, Len(piece)))]

\* The application/x-www-form-urlencoded parser: url.searchParams.
RECURSIVE ParsePieces(_)
ParsePieces(pieces) ==
    IF pieces = <<>> THEN <<>>
    ELSE (IF Head(pieces) = <<>> THEN <<>> ELSE <<ParsePair(Head(pieces))>>)
            \o ParsePieces(Tail(pieces))

FormParse(query) == IF query = <<>> THEN <<>> ELSE ParsePieces(SplitOn(query, 38))

\* The application/x-www-form-urlencoded serializer.
RECURSIVE FormSerialize(_)
FormSerialize(list) ==
    IF list = <<>> THEN <<>>
    ELSE FormEncode(list[1].k) \o <<61>> \o FormEncode(list[1].v)
            \o (IF Len(list) > 1 THEN <<38>> \o FormSerialize(Tail(list)) ELSE <<>>)

\* searchParams.get(name): the value of the first pair named name, else null.
SearchParamsGet(list, name) ==
    IF \E i \in 1..Len(list) : list[i].k = name
    THEN JStr(list[CHOOSE i \in 1..Len(list) :
                    list[i].k = name /\ \A j \in 1..(i - 1) : list[j].k # name].v)
    ELSE JNull

RECURSIVE SelectIdx(_, _, _)
SelectIdx(list, keep, i) ==
    IF i > Len(list) THEN <<>>
    ELSE (IF i \in keep THEN <<list[i]>> ELSE <<>>) \o SelectIdx(list, keep, i + 1)

\* searchParams.set(name, value): the first pair named name gets the value
\* and every other pair of that name is removed; with no such pair the
\* pair is appended.
SearchParamsSet(list, name, value) ==
    IF \E i \in 1..Len(list) : list[i].k = name
    THEN LET first == CHOOSE i \in 1..Len(list) :
                          list[i].k = name /\ \A j \in 1..(i - 1) : list[j].k # name
             upd == [list EXCEPT ![first].v = value]
         IN SelectIdx(upd, {i \in 1..Len(list) : i = first \/ list[i].k # name}, 1)
    ELSE Append(list, [k |-> name, v |-> value])

\* joinQS(url, moreQS)
joinQS(url, moreQS) ==
    IF Falsy(moreQS) THEN url
    ELSE url \o (IF IncludesQuestionMark(url) THEN <<38>> ELSE <<63>>) \o StringOf(moreQS)

(* ------------------------- headers, responses ------------------------- *)

\* Header names are case-insensitive and kept in lower case.
EmptyHeaders == [n \in {} |-> ""]

\* headers.get(name) || fallback
HeaderGetOr(h, name, fallback) ==
    IF name \in DOMAIN h /\ h[name] # "" THEN h[name] ELSE fallback

NoError == [name |-> <<>>, message |-> <<>>]
NoBody == [null |-> TRUE, bytes |-> <<>>]
BodyOf(bytes) == [null |-> FALSE, bytes |-> bytes]
NoResponse == [status |-> 0, body |-> NoBody, headers |-> EmptyHeaders]

\* A settled promise / a completed call: a value or a thrown error.
Ok(resp) == [ok |-> TRUE, resp |-> resp, err |-> NoError]
Err(err) == [ok |-> FALSE, resp |-> NoResponse, err |-> err]

\* Statuses the Fetch standard calls null body statuses.
NullBodyStatus == {101, 103, 204, 205, 304}

\* The decimal digits of a natural number.
RECURSIVE Decimal(_)
Decimal(n) == (IF n >= 10 THEN Decimal(n \div 10) ELSE <<>>) \o <<48 + (n % 10)>>

\* name "RangeError", message
\* "The status provided (<status>) is not equal to 101 and outside the range [200, 599]"
StatusRangeError(status) ==
    [name |-> <<82, 97, 110, 103, 101, 69, 114, 114, 111, 114>>,
     message |-> <<84, 104, 101, 32, 115, 116, 97, 116, 117, 115, 32, 112, 114, 111, 118, 105, 100, 101, 100, 32, 40>> \o Decimal(status)
                    \o <<41, 32, 105, 115, 32, 110, 111, 116, 32, 101, 113, 117, 97, 108, 32, 116, 111, 32, 49, 48, 49, 32, 97, 110, 100, 32, 111, 117, 116, 115, 105, 100, 101, 32, 116, 104, 101, 32, 114, 97, 110, 103, 101, 32, 91, 50, 48, 48, 44, 32, 53, 57, 57, 93>>]
\* name "TypeError", message "Response with null body status cannot have body"
NullBodyStatusError ==
    [name |-> <<84, 121, 112, 101, 69, 114, 114, 111, 114>>,
     message |-> <<82, 101, 115, 112, 111, 110, 115, 101, 32, 119, 105, 116, 104, 32, 110, 117, 108, 108, 32, 98, 111, 100, 121, 32, 115, 116, 97, 116, 117, 115, 32, 99, 97, 110, 110, 111, 116, 32, 104, 97, 118, 101, 32, 98, 111, 100, 121>>]

\* new Response(body, {status, headers}): a status that is neither 101 nor
\* in 200..599 is a RangeError, a non-null body with a null body status is a
\* TypeError.
NewResponse(body, status, headers) ==
    IF (status < 200 \/ status > 599) /\ status # 101 THEN Err(StatusRangeError(status))
    ELSE IF ~body.null /\ status \in NullBodyStatus THEN Err(NullBodyStatusError)
    ELSE Ok([status |-> status, body |-> body, headers |-> headers])

\* String(err?.message || err): an error with an empty message is printed
\* by its name.
ErrorText(err) == IF err.message # <<>> THEN err.message ELSE err.name

\* \uXXXX in lower-case hexadecimal
UnicodeEscape(c) ==
    <<92, 117, LowerHex(c \div 4096), LowerHex((c \div 256) % 16),
      LowerHex((c \div 16) % 16), LowerHex(c % 16)>>

\* One character of a string under JSON.stringify: the quote, the backslash
\* and the controls below space are escaped, as is an unpaired surrogate.
JsonEscape(c) ==
    CASE c = 34 -> <<92, 34>>
      [] c = 92 -> <<92, 92>>
      [] c = 8 -> <<92, 98>>
      [] c = 12 -> <<92, 102>>
      [] c = 10 -> <<92, 110>>
      [] c = 13 -> <<92, 114>>
      [] c = 9 -> <<92, 116>>
      [] OTHER -> IF c < 32 \/ IsSurrogate(c) THEN UnicodeEscape(c) ELSE <<c>>

\* JSON.stringify(s) for a string s
JsonQuote(s) == <<34>> \o Concat([i \in 1..Len(s) |-> JsonEscape(s[i])]) \o <<34>>

\* JSON.stringify({ ok: false, message })
ErrorJson(message) == <<123, 34, 111, 107, 34, 58, 102, 97, 108, 115, 101, 44, 34, 109, 101, 115, 115, 97, 103, 101, 34, 58>> \o JsonQuote(message) \o <<125>>

\* JSON.stringify({ ok: true, ts }), ts given by its decimal digits
HealthJson(ts) == <<123, 34, 111, 107, 34, 58, 116, 114, 117, 101, 44, 34, 116, 115, 34, 58>> \o ts \o <<125>>

\* buildCORSHeaders with the Origin header never read.
buildCORSHeadersAnyOrigin(req, baseHeaders) ==
    ("access-control-allow-origin" :> "*")
    @@ ("access-control-allow-methods" :> "GET, POST, PUT, OPTIONS")
    @@ ("access-control-allow-headers" :>
            HeaderGetOr(req.headers, "access-control-request-headers",
                        "Content-Type, X-MBX-APIKEY"))
    @@ ("access-control-max-age" :> "600")
    @@ ("vary" :> "Origin, Access-Control-Request-Headers, Access-Control-Request-Method")
    @@ ("cache-control" :> "no-store, no-cache, must-revalidate, proxy-revalidate")
    @@ ("pragma" :> "no-cache")
    @@ ("expires" :> "0")
    @@ baseHeaders

buildCORSHeaders(req, baseHeaders) ==
    ("access-control-allow-origin" :> HeaderGetOr(req.headers, "origin", "*"))
    @@ ("access-control-allow-methods" :> "GET, POST, PUT, OPTIONS")
    @@ ("access-control-allow-headers" :>
            HeaderGetOr(req.headers, "access-control-request-headers",
                        "Content-Type, X-MBX-APIKEY"))
    @@ ("access-control-max-age" :> "600")
    @@ ("vary" :> "Origin, Access-Control-Request-Headers, Access-Control-Request-Method")
    @@ ("cache-control" :> "no-store, no-cache, must-revalidate, proxy-revalidate")
    @@ ("pragma" :> "no-cache")
    @@ ("expires" :> "0")
    @@ baseHeaders

\* The catch branch of withCORS answering with the bare error text.
withCORSCatchPlainText(err, req) ==
    [status |-> 500,
     body |-> BodyOf(Utf8Encode(ErrorText(err))),
     headers |-> buildCORSHeaders(req, ("content-type" :> "text/plain"))]

\* The catch branch of withCORS.
withCORSCatch(err, req) ==
    [status |-> 500,
     body |-> BodyOf(Utf8Encode(ErrorJson(ErrorText(err)))),
     headers |-> buildCORSHeaders(req, ("content-type" :> "application/json"))]

\* withCORS(responsePromise, request), given how the promise settled.
withCORS(settled, req) ==
    IF settled.ok
    THEN LET made == NewResponse(settled.resp.body, settled.resp.status,
                                 buildCORSHeaders(req, settled.resp.headers))
         IN IF made.ok THEN made.resp ELSE withCORSCatch(made.err, req)
    ELSE withCORSCatch(settled.err, req)

\* json(status, data, request), data given by its JSON text.
json(status, data, req) ==
    [status |-> status,
     body |-> BodyOf(Utf8Encode(data)),
     headers |-> buildCORSHeaders(req, ("content-type" :> "application/json"))]

(* ------------------------------ handlers ------------------------------ *)

\* What a handler has done when it suspends or returns: it returned a
\* response ("respond"), threw ("throw"), issued its upstream call and awaits
\* it ("fetch"), or awaits the request body ("read").
NoCall == [method |-> "", url |-> <<>>, headers |-> EmptyHeaders]
Respond(resp) == [kind |-> "respond", resp |-> resp, err |-> NoError, call |-> NoCall]
Throw(err) == [kind |-> "throw", resp |-> NoResponse, err |-> err, call |-> NoCall]
AwaitBody == [kind |-> "read", resp |-> NoResponse, err |-> NoError, call |-> NoCall]

\* A header value given to fetch loses the tabs, spaces, CRs and LFs that
\* begin and end it.
NormalizeHeaderValue(value) == Strip(value, {9, 10, 13, 32})

\* A header value is a byte string (no character above U+00FF) ...
IsByteString(value) == \A i \in 1..Len(value) : value[i] <= 255
\* ... which, normalized, holds no NUL, LF or CR.
IsHeaderValue(value) == \A i \in 1..Len(value) : value[i] \notin {0, 10, 13}

\* The TypeErrors of fetch for a header value it cannot send.  name
\* "TypeError"; the message is the runtime's wording:
\* "Value is not a valid ByteString" and "Invalid header value"
ByteStringError ==
    [name |-> <<84, 121, 112, 101, 69, 114, 114, 111, 114>>, message |-> <<86, 97, 108, 117, 101, 32, 105, 115, 32, 110, 111, 116, 32, 97, 32, 118, 97, 108, 105, 100, 32, 66, 121, 116, 101, 83, 116, 114, 105, 110, 103>>]
HeaderValueError ==
    [name |-> <<84, 121, 112, 101, 69, 114, 114, 111, 114>>, message |-> <<73, 110, 118, 97, 108, 105, 100, 32, 104, 101, 97, 100, 101, 114, 32, 118, 97, 108, 117, 101>>]

\* fetch(url, { method, headers }) up to the point where the call is issued:
\* it rejects, and nothing is sent, when a header value is not valid;
\* otherwise the call goes out with the normalized header values.
fetch(method, url, headers) ==
    IF \E n \in DOMAIN headers : ~IsByteString(headers[n]) THEN Throw(ByteStringError)
    ELSE IF \E n \in DOMAIN headers : ~IsHeaderValue(NormalizeHeaderValue(headers[n]))
    THEN Throw(HeaderValueError)
    ELSE [kind |-> "fetch", resp |-> NoResponse, err |-> NoError,
          call |-> [method |-> method, url |-> url,
                    headers |-> [n \in DOMAIN headers |-> NormalizeHeaderValue(headers[n])]]]

\* The parsed JSON body of a request: unparseable ("invalid"), the literal
\* null, a value without properties of these names ("scalar": a number, a
\* string, a boolean, an array), or an object with these fields, each
\* undefined, null, a string, a number or a boolean.
JsonBody(kind, apiKey, endpoint, queryString, listenKey) ==
    [kind |-> kind, apiKey |-> apiKey, endpoint |-> endpoint,
     queryString |-> queryString, listenKey |-> listenKey]
EmptyObject == JsonBody("object", JUndef, JUndef, JUndef, JUndef)

\* readJson(req): req.json(), or {} when it throws.
readJson(req) == IF req.body.kind = "invalid" THEN EmptyObject ELSE req.body

\* const { ... } = value throws when value is null; a property of a
\* non-object value is undefined.
DestructureThrows(value) == value.kind = "null"
\* name "TypeError", message
\* "Cannot destructure property 'apiKey' of '(intermediate value)' as it is null."
DestructureError ==
    [name |-> <<84, 121, 112, 101, 69, 114, 114, 111, 114>>,
     message |-> <<67, 97, 110, 110, 111, 116, 32, 100, 101, 115, 116, 114, 117, 99, 116, 117, 114, 101, 32, 112, 114, 111, 112, 101, 114, 116, 121, 32, 39, 97, 112, 105, 75, 101, 121, 39, 32, 111, 102, 32, 39, 40, 105, 110, 116, 101, 114, 109, 101, 100, 105, 97, 116, 101, 32, 118, 97, 108, 117, 101, 41, 39, 32, 97, 115, 32, 105, 116, 32, 105, 115, 32, 110, 117, 108, 108, 46>>]
Field(value, v) == IF value.kind = "object" THEN v ELSE JUndef

\* endpoint.startsWith on a value that is not a string.  name "TypeError",
\* message "endpoint.startsWith is not a function"
NotAFunctionError ==
    [name |-> <<84, 121, 112, 101, 69, 114, 114, 111, 114>>, message |-> <<101, 110, 100, 112, 111, 105, 110, 116, 46, 115, 116, 97, 114, 116, 115, 87, 105, 116, 104, 32, 105, 115, 32, 110, 111, 116, 32, 97, 32, 102, 117, 110, 99, 116, 105, 111, 110>>]

\* "endpoint"
EndpointName == <<101, 110, 100, 112, 111, 105, 110, 116>>

\* The messages of the 400 responses:
\* "Missing or invalid 'endpoint'"
MissingEndpoint == <<77, 105, 115, 115, 105, 110, 103, 32, 111, 114, 32, 105, 110, 118, 97, 108, 105, 100, 32, 39, 101, 110, 100, 112, 111, 105, 110, 116, 39>>
\* "Missing apiKey/endpoint"
MissingApiKeyEndpoint == <<77, 105, 115, 115, 105, 110, 103, 32, 97, 112, 105, 75, 101, 121, 47, 101, 110, 100, 112, 111, 105, 110, 116>>
\* "Missing apiKey/queryString"
MissingApiKeyQueryString == <<77, 105, 115, 115, 105, 110, 103, 32, 97, 112, 105, 75, 101, 121, 47, 113, 117, 101, 114, 121, 83, 116, 114, 105, 110, 103>>
\* "Missing apiKey"
MissingApiKey == <<77, 105, 115, 115, 105, 110, 103, 32, 97, 112, 105, 75, 101, 121>>
\* "Missing apiKey/listenKey"
MissingApiKeyListenKey == <<77, 105, 115, 115, 105, 110, 103, 32, 97, 112, 105, 75, 101, 121, 47, 108, 105, 115, 116, 101, 110, 75, 101, 121>>

\* The fixed upstream paths:
\* "/api/v3/openOrders"
OpenOrdersPath == <<47, 97, 112, 105, 47, 118, 51, 47, 111, 112, 101, 110, 79, 114, 100, 101, 114, 115>>
\* "/sapi/v1/fiat/orders"
FiatOrdersPath == <<47, 115, 97, 112, 105, 47, 118, 49, 47, 102, 105, 97, 116, 47, 111, 114, 100, 101, 114, 115>>
\* "/sapi/v1/fiat/payments"
FiatPaymentsPath == <<47, 115, 97, 112, 105, 47, 118, 49, 47, 102, 105, 97, 116, 47, 112, 97, 121, 109, 101, 110, 116, 115>>
\* "/api/v3/userDataStream"
UserDataStreamPath == <<47, 97, 112, 105, 47, 118, 51, 47, 117, 115, 101, 114, 68, 97, 116, 97, 83, 116, 114, 101, 97, 109>>
\* "?listenKey="
ListenKeyQuery == <<63, 108, 105, 115, 116, 101, 110, 75, 101, 121, 61>>

\* The headers of a signed call: { "X-MBX-APIKEY": apiKey }
ApiKeyHeader(apiKey) == ("x-mbx-apikey" :> StringOf(apiKey))

\* The for loop of proxyPublic over url.searchParams.entries().
RECURSIVE CopyParams(_, _)
CopyParams(list, entries) ==
    IF entries = <<>> THEN list
    ELSE CopyParams(IF Head(entries).k # EndpointName
                    THEN SearchParamsSet(list, Head(entries).k, Head(entries).v)
                    ELSE list,
                    Tail(entries))

\* forward.searchParams.set(...) for every entry, then forward.toString():
\* the query is re-serialized once a parameter has been set.
ForwardURL(endpoint, entries) ==
    LET forward == ParseURL(BINANCE \o endpoint)
        copied == \E i \in 1..Len(entries) : entries[i].k # EndpointName
        list == CopyParams(FormParse(forward.query), entries)
    IN IF copied
       THEN SerializeURL([forward EXCEPT !.hasQuery = list # <<>>,
                                         !.query = FormSerialize(list)])
       ELSE SerializeURL(forward)

proxyPublic(req) ==
    LET endpoint == SearchParamsGet(req.searchParams, EndpointName)
    IN IF Falsy(endpoint) \/ ~StartsWithSlash(endpoint.s)
       THEN Respond(json(400, ErrorJson(MissingEndpoint), req))
       ELSE fetch("GET", ForwardURL(endpoint.s, req.searchParams), EmptyHeaders)

\* proxySigned without the startsWith("/") test on endpoint.
proxySignedNoSlashCheck(req) ==
    LET body == readJson(req)
        apiKey == Field(body, body.apiKey)
        endpoint == Field(body, body.endpoint)
        queryString == Field(body, body.queryString)
    IN IF DestructureThrows(body) THEN Throw(DestructureError)
       ELSE IF Falsy(apiKey) \/ Falsy(endpoint)
       THEN Respond(json(400, ErrorJson(MissingApiKeyEndpoint), req))
       ELSE fetch("GET", joinQS(BINANCE \o StringOf(endpoint), OrElse(queryString, JStr(<<>>))),
                  ApiKeyHeader(apiKey))

proxySigned(req) ==
    LET body == readJson(req)
        apiKey == Field(body, body.apiKey)
        endpoint == Field(body, body.endpoint)
        queryString == Field(body, body.queryString)
    IN IF DestructureThrows(body) THEN Throw(DestructureError)
       ELSE IF Falsy(apiKey) \/ Falsy(endpoint)
       THEN Respond(json(400, ErrorJson(MissingApiKeyEndpoint), req))
       ELSE IF endpoint.t # "string" THEN Throw(NotAFunctionError)
       ELSE IF ~StartsWithSlash(endpoint.s)
       THEN Respond(json(400, ErrorJson(MissingApiKeyEndpoint), req))
       ELSE fetch("GET", joinQS(BINANCE \o endpoint.s, OrElse(queryString, JStr(<<>>))),
                  ApiKeyHeader(apiKey))

proxyOpenOrders(req) ==
    LET body == readJson(req)
        apiKey == Field(body, body.apiKey)
        queryString == Field(body, body.queryString)
    IN IF DestructureThrows(body) THEN Throw(DestructureError)
       ELSE IF Falsy(apiKey) \/ Falsy(queryString)
       THEN Respond(json(400, ErrorJson(MissingApiKeyQueryString), req))
       ELSE fetch("GET", joinQS(BINANCE \o OpenOrdersPath, queryString), ApiKeyHeader(apiKey))

proxyFiatOrders(req) ==
    LET body == readJson(req)
        apiKey == Field(body, body.apiKey)
        queryString == Field(body, body.queryString)
    IN IF DestructureThrows(body) THEN Throw(DestructureError)
       ELSE IF Falsy(apiKey) \/ Falsy(queryString)
       THEN Respond(json(400, ErrorJson(MissingApiKeyQueryString), req))
       ELSE fetch("GET", joinQS(BINANCE \o FiatOrdersPath, queryString), ApiKeyHeader(apiKey))

proxyFiatPayments(req) ==
    LET body == readJson(req)
        apiKey == Field(body, body.apiKey)
        queryString == Field(body, body.queryString)
    IN IF DestructureThrows(body) THEN Throw(DestructureError)
       ELSE IF Falsy(apiKey) \/ Falsy(queryString)
       THEN Respond(json(400, ErrorJson(MissingApiKeyQueryString), req))
       ELSE fetch("GET", joinQS(BINANCE \o FiatPaymentsPath, queryString), ApiKeyHeader(apiKey))

createListenKey(req) ==
    LET body == readJson(req)
        apiKey == Field(body, body.apiKey)
    IN IF DestructureThrows(body) THEN Throw(DestructureError)
       ELSE IF Falsy(apiKey)
       THEN Respond(json(400, ErrorJson(MissingApiKey), req))
       ELSE fetch("POST", BINANCE \o UserDataStreamPath, ApiKeyHeader(apiKey))

\* keepAlive appending listenKey without encodeURIComponent.
keepAliveUnencoded(req) ==
    LET body == readJson(req)
        apiKey == Field(body, body.apiKey)
        listenKey == Field(body, body.listenKey)
    IN IF DestructureThrows(body) THEN Throw(DestructureError)
       ELSE IF Falsy(apiKey) \/ Falsy(listenKey)
       THEN Respond(json(400, ErrorJson(MissingApiKeyListenKey), req))
       ELSE fetch("PUT",
                  BINANCE \o UserDataStreamPath \o ListenKeyQuery \o StringOf(listenKey),
                  ApiKeyHeader(apiKey))

\* The URL is built before fetch is called, so a listenKey that
\* encodeURIComponent refuses ends the handler with its URIError.
keepAlive(req) ==
    LET body == readJson(req)
        apiKey == Field(body, body.apiKey)
        listenKey == Field(body, body.listenKey)
    IN IF DestructureThrows(body) THEN Throw(DestructureError)
       ELSE IF Falsy(apiKey) \/ Falsy(listenKey)
       THEN Respond(json(400, ErrorJson(MissingApiKeyListenKey), req))
       ELSE IF encodeURIComponentThrows(StringOf(listenKey)) THEN Throw(URIError)
       ELSE fetch("PUT",
                  BINANCE \o UserDataStreamPath \o ListenKeyQuery
                      \o encodeURIComponent(StringOf(listenKey)),
                  ApiKeyHeader(apiKey))

\* The statements every route handler runs once its fetch has resolved:
\* new Response(await resp.text(), { status, headers: { Content-Type } }).
forwardResponse(reply) ==
    NewResponse(BodyOf(Utf8Encode(TextDecode(reply.body))), reply.status,
                ("content-type" :> HeaderGetOr(reply.headers, "content-type", "application/json")))

\* The route table of handle(): the handler of a (method, path), "" for none.
Route(method, path) ==
    CASE path = "/proxyPublic" /\ method = "GET" -> "proxyPublic"
      [] path = "/proxySigned" /\ method = "POST" -> "proxySigned"
      [] path = "/proxyOpenOrders" /\ method = "POST" -> "proxyOpenOrders"
      [] path = "/proxyFiatOrders" /\ method = "POST" -> "proxyFiatOrders"
      [] path = "/proxyFiatPayments" /\ method = "POST" -> "proxyFiatPayments"
      [] path = "/listenKey" /\ method = "POST" -> "createListenKey"
      [] path = "/listenKey" /\ method = "PUT" -> "keepAlive"
      [] OTHER -> ""

\* The handlers that begin with await readJson(request).
BodyRoutes ==
    {"proxySigned", "proxyOpenOrders", "proxyFiatOrders", "proxyFiatPayments",
     "createListenKey", "keepAlive"}

\* A body-reading handler from the return of readJson to its return or its
\* fetch.
RouteStep(route, req) ==
    CASE route = "proxySigned" -> proxySigned(req)
      [] route = "proxyOpenOrders" -> proxyOpenOrders(req)
      [] route = "proxyFiatOrders" -> proxyFiatOrders(req)
      [] route = "proxyFiatPayments" -> proxyFiatPayments(req)
      [] route = "createListenKey" -> createListenKey(req)
      [] route = "keepAlive" -> keepAlive(req)

\* withCORS around a handler that returned or threw before any fetch; a
\* handler that issued its fetch stays suspended.
Settle(step, req) ==
    CASE step.kind = "fetch" -> step
      [] step.kind = "respond" -> Respond(withCORS(Ok(step.resp), req))
      [] step.kind = "throw" -> Respond(withCORS(Err(step.err), req))

\* A preflight branch answering 200 with an empty text body.
preflightOk(req) ==
    [status |-> 200, body |-> BodyOf(<<>>), headers |-> buildCORSHeaders(req, EmptyHeaders)]

\* The preflight branch of handle().
preflight(req) ==
    [status |-> 204, body |-> NoBody, headers |-> buildCORSHeaders(req, EmptyHeaders)]

\* "Not found"
NotFound == <<78, 111, 116, 32, 102, 111, 117, 110, 100>>

\* handle(request) up to its first suspension: the response it returns
\* ("respond"), the upstream call it awaits ("fetch", /proxyPublic only) or
\* the body it awaits ("read").  now is the value of Date.now().
handle(req, now) ==
    IF req.method = "OPTIONS"
    THEN Respond(preflight(req))
    ELSE IF req.path = "/__health" /\ req.method = "GET"
    THEN Respond(json(200, HealthJson(now), req))
    ELSE IF Route(req.method, req.path) = "proxyPublic"
    THEN Settle(proxyPublic(req), req)
    ELSE IF Route(req.method, req.path) \in BodyRoutes
    THEN AwaitBody
    ELSE Respond([status |-> 404, body |-> BodyOf(Utf8Encode(NotFound)),
                  headers |-> buildCORSHeaders(req, ("content-type" :> "text/plain"))])

\* handle(request) resumed when req.json() has settled.
resume(req) == Settle(RouteStep(Route(req.method, req.path), req), req)

(* ------------------------------- inputs -------------------------------- *)

Methods == {"GET", "POST", "PUT", "OPTIONS", "DELETE"}
Paths == {"/__health", "/proxyPublic", "/proxySigned", "/proxyOpenOrders",
          "/proxyFiatOrders", "/proxyFiatPayments", "/listenKey", "/other"}

\* Request headers: Origin absent, empty or set; a preflight's
\* Access-Control-Request-Headers absent or set.
RequestHeaders ==
    {EmptyHeaders,
     ("origin" :> "https://app.example"),
     ("origin" :> ""),
     ("origin" :> "https://app.example") @@ ("access-control-request-headers" :> "x-custom")}

\* "/api/v3/time"
TimePath == <<47, 97, 112, 105, 47, 118, 51, 47, 116, 105, 109, 101>>
\* "/api/v3/depth?symbol=ETH"
DepthPath == <<47, 97, 112, 105, 47, 118, 51, 47, 100, 101, 112, 116, 104, 63, 115, 121, 109, 98, 111, 108, 61, 69, 84, 72>>
\* "/api/v3/time#frag"
FragmentPath == <<47, 97, 112, 105, 47, 118, 51, 47, 116, 105, 109, 101, 35, 102, 114, 97, 103>>
\* An endpoint with dot segments, "/api/../v3/./time": the URL parser makes
\* it /v3/time.
DottedPath == <<47, 97, 112, 105, 47, 46, 46, 47, 118, 51, 47, 46, 47, 116, 105, 109, 101>>
\* An endpoint with a backslash, an escaped ".." segment, a tab, spaces,
\* quotes, a non-ASCII letter and a fragment, and a space at its end:
\* "/api\v3/%2e%2E/ti<TAB>me x?q='e-acute "#f` "
OddPath == <<47, 97, 112, 105, 92, 118, 51, 47, 37, 50, 101, 37, 50, 69, 47, 116, 105, 9, 109, 101, 32, 120, 63, 113, 61, 39, 233, 32, 34, 35, 102, 96, 32>>


\* Endpoints accepted by the handlers, "/@evil.example" among them ...
GoodEndpointTexts ==
    {TimePath, DepthPath, FragmentPath, DottedPath, OddPath, <<47, 64, 101, 118, 105, 108, 46, 101, 120, 97, 109, 112, 108, 101>>}

\* ... and every endpoint text, those lacking the leading "/" included:
\* "", "api/v3/time", "@EVIL.example" and ".evil.example".
EndpointTexts ==
    GoodEndpointTexts \cup
        {<<>>,
         <<97, 112, 105, 47, 118, 51, 47, 116, 105, 109, 101>>,
         <<64, 69, 86, 73, 76, 46, 101, 120, 97, 109, 112, 108, 101>>,
         <<46, 101, 118, 105, 108, 46, 101, 120, 97, 109, 112, 108, 101>>}

\* "symbol"
SymbolName == <<115, 121, 109, 98, 111, 108>>
\* "BTC"
Btc == <<66, 84, 67>>
\* "a~&b +e-acute"
OddValue == <<97, 126, 38, 98, 32, 43, 233>>

\* The (name, value) pairs an inbound query string is made of.
Params ==
    {[k |-> EndpointName, v |-> TimePath]}
    \cup {[k |-> SymbolName, v |-> v] : v \in {Btc, OddValue}}

RECURSIVE ParamLists(_)
ParamLists(n) ==
    IF n = 0 THEN {<<>>}
    ELSE LET shorter == ParamLists(n - 1)
         IN shorter \cup {Append(l, p) : l \in {x \in shorter : Len(x) = n - 1}, p \in Params}

\* "key1"
Key1 == <<107, 101, 121, 49>>
\* "7"
Seven == <<55>>
\* "timestamp=1&signature=ab"
SignedQuery == <<116, 105, 109, 101, 115, 116, 97, 109, 112, 61, 49, 38, 115, 105, 103, 110, 97, 116, 117, 114, 101, 61, 97, 98>>
\* "lk1"
Lk1 == <<108, 107, 49>>

\* The apiKey of a body: absent, null, "", "key1", a key between a space and
\* a tab (" key1<TAB>"), two keys on two lines ("key1<LF>key2"), the number 7.
ApiKeys ==
    {JUndef, JNull, JStr(<<>>), JStr(Key1),
     JStr(<<32, 107, 101, 121, 49, 9>>),
     JStr(<<107, 101, 121, 49, 10, 107, 101, 121, 50>>),
     JNum(Seven)}
Endpoints == {JUndef, JNull, JNum(Seven), JTrue} \cup {JStr(e) : e \in EndpointTexts}
QueryStrings == {JUndef, JStr(<<>>), JStr(SignedQuery), JNum(Seven)}
\* The listenKey of a body: absent, "", "lk1", "l/k&x=1~ e-acute", and "a"
\* followed by the unpaired surrogate U+D800.
ListenKeys ==
    {JUndef, JStr(<<>>), JStr(Lk1),
     JStr(<<108, 47, 107, 38, 120, 61, 49, 126, 32, 233>>),
     JStr(<<97, 55296>>)}

InvalidBody == JsonBody("invalid", JUndef, JUndef, JUndef, JUndef)
NullBody == JsonBody("null", JUndef, JUndef, JUndef, JUndef)
ScalarBody == JsonBody("scalar", JUndef, JUndef, JUndef, JUndef)
FullBody == JsonBody("object", JStr(Key1), JStr(TimePath), JStr(SignedQuery), JStr(Lk1))

\* The bodies sent to /proxySigned: every apiKey with every queryString,
\* with and without an endpoint, and every endpoint.
SignedBodies ==
    {JsonBody("object", a, e, q, JUndef) :
        a \in ApiKeys, e \in {JUndef, JStr(TimePath)}, q \in QueryStrings}
    \cup {JsonBody("object", JStr(Key1), e, q, JUndef) :
            e \in Endpoints, q \in {JUndef, JStr(SignedQuery)}}

\* The bodies sent to the fixed paths: every apiKey with every queryString.
QueryBodies == {JsonBody("object", a, JUndef, q, JUndef) : a \in ApiKeys, q \in QueryStrings}

\* The bodies sent to /listenKey: every apiKey with every listenKey.
ListenKeyBodies == {JsonBody("object", a, JUndef, JUndef, l) : a \in ApiKeys, l \in ListenKeys}

MkRequest(method, path, headers, searchParams, body) ==
    [method |-> method, path |-> path, headers |-> headers,
     searchParams |-> searchParams, body |-> body]

\* Every method and path, with every header combination, with a body that
\* holds every field or is the literal null.
ProbeRequests ==
    {MkRequest(m, p, h, <<[k |-> EndpointName, v |-> TimePath]>>, b) :
        m \in Methods, p \in Paths, h \in RequestHeaders, b \in {NullBody, FullBody}}

\* GET /proxyPublic with every query string of up to MaxParams parameters,
\* and with the other endpoints alone and beside a parameter.
PublicRequests ==
    {MkRequest("GET", "/proxyPublic", EmptyHeaders, sp, InvalidBody) :
        sp \in ParamLists(MaxParams)
               \cup {<<[k |-> EndpointName, v |-> e]>> : e \in EndpointTexts}
               \cup {<<[k |-> EndpointName, v |-> e], [k |-> SymbolName, v |-> v]>> :
                        e \in {DepthPath, FragmentPath, DottedPath, OddPath},
                        v \in {Btc, OddValue}}}

\* The routes that read a JSON body, each with the bodies that vary the
\* fields it reads, with a body that is not an object and with one that
\* is not JSON.
BodyRequests ==
    {MkRequest("POST", "/proxySigned", ("origin" :> "https://app.example"), <<>>, b) :
        b \in SignedBodies \cup {ScalarBody, InvalidBody}}
    \cup {MkRequest("POST", p, ("origin" :> "https://app.example"), <<>>, b) :
            p \in {"/proxyOpenOrders", "/proxyFiatOrders", "/proxyFiatPayments"},
            b \in QueryBodies \cup {ScalarBody, InvalidBody}}
    \cup {MkRequest(m, "/listenKey", ("origin" :> "https://app.example"), <<>>, b) :
            m \in {"POST", "PUT"}, b \in ListenKeyBodies \cup {ScalarBody, InvalidBody}}

\* The request that arrives while another request is in flight.
ConcurrentRequests ==
    {MkRequest("POST", "/proxySigned", ("origin" :> "https://other.example"), <<>>,
               JsonBody("object", JStr(<<107, 101, 121, 50>>), JStr(TimePath), JStr(SignedQuery), JUndef))}

\* Date.now(): "1700000000000" and "1700000000001"
Clock == {<<49, 55, 48, 48, 48, 48, 48, 48, 48, 48, 48, 48, 48>>, <<49, 55, 48, 48, 48, 48, 48, 48, 48, 48, 48, 48, 49>>}

UpstreamStatuses == {200, 204, 304, 400}
UpstreamHeaders ==
    {EmptyHeaders,
     ("content-type" :> "text/html")
        @@ ("access-control-allow-origin" :> "https://upstream.example")
        @@ ("cache-control" :> "max-age=60")}

\* The bytes of "{\"serverTime\":1}"
TimeBody == <<123, 34, 115, 101, 114, 118, 101, 114, 84, 105, 109, 101, 34, 58, 49, 125>>
\* The bodies of the upstream: a JSON text, and a body that is not UTF-8 text
\* (a byte order mark, e-acute, the byte FF and the first two bytes of a
\* three-byte character).
UpstreamBodies == {TimeBody, <<239, 187, 191, 195, 169, 255, 226, 130>>}

\* What fetch resolves with: the status line and headers of the reply.
Heads == [status : UpstreamStatuses, headers : UpstreamHeaders]

\* The replies that come without a body.
BodylessHeads == {h \in Heads : h.status \in NullBodyStatus}


\* What fetch, or reading the body, can reject with: a TypeError whose
\* message holds quotes, a backslash, a line feed, a control character and
\* a non-ASCII letter,
\* "connect \"api.binance.com\" failed<LF><TAB>at C:\x<U+0001>e-acute"
\* and a timeout without message.
ConnectError ==
    [name |-> <<84, 121, 112, 101, 69, 114, 114, 111, 114>>,
     message |-> <<99, 111, 110, 110, 101, 99, 116, 32, 34, 97, 112, 105, 46, 98, 105, 110, 97, 110, 99, 101, 46, 99, 111, 109, 34, 32, 102, 97, 105, 108, 101, 100, 10, 9, 97, 116, 32, 67, 58, 92, 120, 1, 233>>]
\* The errors of the transport: ConnectError, and a TimeoutError without
\* message.
TransportErrors == {ConnectError, [name |-> <<84, 105, 109, 101, 111, 117, 116, 69, 114, 114, 111, 114>>, message |-> <<>>]}

(* ------------------------------- system -------------------------------- *)

\* Requests in flight at the same time.  Slot "a" takes every request above
\* with every reply; slot "b" is a second request served alongside it.
Slots == {"a", "b"}

HeadsFor(s) == IF s = "a" THEN Heads ELSE {[status |-> 200, headers |-> EmptyHeaders]}
BodiesFor(s) == IF s = "a" THEN UpstreamBodies ELSE {TimeBody}
ErrorsFor(s) == IF s = "a" THEN TransportErrors ELSE {ConnectError}

NoRequest == MkRequest("", "", EmptyHeaders, <<>>, InvalidBody)
NoReply == [status |-> 0, headers |-> EmptyHeaders, body |-> <<>>]
NoOutcome == [kind |-> "none", reply |-> NoReply, err |-> NoError]

Init ==
    /\ pc = [s \in Slots |-> "idle"]
    /\ request = [s \in Slots |-> NoRequest]
    /\ calls = [s \in Slots |-> <<>>]
    /\ responses = [s \in Slots |-> <<>>]
    /\ upstream = [s \in Slots |-> NoOutcome]

\* What a handler does when it runs from one suspension to the next.
Advance(s, step) ==
    CASE step.kind = "read" ->
            /\ pc' = [pc EXCEPT ![s] = "reading"]
            /\ UNCHANGED <<calls, responses>>
      [] step.kind = "fetch" ->
            /\ pc' = [pc EXCEPT ![s] = "awaiting"]
            /\ calls' = [calls EXCEPT ![s] = Append(@, step.call)]
            /\ UNCHANGED responses
      [] step.kind = "respond" ->
            /\ pc' = [pc EXCEPT ![s] = "responded"]
            /\ responses' = [responses EXCEPT ![s] = Append(@, step.resp)]
            /\ UNCHANGED calls

\* The fetch event listener: event.respondWith(handle(event.request)), run
\* until handle returns a response or suspends.
Handle(s, r, now) ==
    /\ pc[s] = "idle"
    /\ request' = [request EXCEPT ![s] = r]
    /\ Advance(s, handle(r, now))
    /\ UNCHANGED upstream

\* req.json() has settled: the handler validates and answers or fetches.
BodyRead(s) ==
    /\ pc[s] = "reading"
    /\ Advance(s, resume(request[s]))
    /\ UNCHANGED <<request, upstream>>

\* fetch resolves with the reply's status and headers, and the handler goes
\* on to await resp.text().  A reply with a null body status has no body:
\* resp.text() resolves with "" at once, the handler builds its response and
\* withCORS answers in the same turn.  Any other reply leaves the handler
\* waiting for the body.
FetchResolve(s, head) ==
    /\ pc[s] = "awaiting"
    /\ LET reply == [status |-> head.status, headers |-> head.headers, body |-> <<>>]
       IN IF head.status \in NullBodyStatus
          THEN /\ pc' = [pc EXCEPT ![s] = "responded"]
               /\ upstream' = [upstream EXCEPT ![s] =
                       [kind |-> "reply", err |-> NoError, reply |-> reply]]
               /\ responses' = [responses EXCEPT ![s] =
                       Append(@, withCORS(forwardResponse(reply), request[s]))]
          ELSE /\ pc' = [pc EXCEPT ![s] = "receiving"]
               /\ upstream' = [upstream EXCEPT ![s] =
                       [kind |-> "head", err |-> NoError, reply |-> reply]]
               /\ UNCHANGED responses
    /\ UNCHANGED <<request, calls>>

\* resp.text() resolves: the handler builds its response, withCORS finishes
\* it and respondWith sends it.
BodyArrives(s, body) ==
    /\ pc[s] = "receiving"
    /\ body \in BodiesFor(s)
    /\ LET reply == [upstream[s].reply EXCEPT !.body = body]
       IN /\ upstream' = [upstream EXCEPT ![s] = [@ EXCEPT !.kind = "reply", !.reply = reply]]
          /\ responses' = [responses EXCEPT ![s] =
                Append(@, withCORS(forwardResponse(reply), request[s]))]
    /\ pc' = [pc EXCEPT ![s] = "responded"]
    /\ UNCHANGED <<request, calls>>

\* fetch rejects: the handler's promise rejects and withCORS catches it.
FetchReject(s, err) ==
    /\ pc[s] = "awaiting"
    /\ upstream' = [upstream EXCEPT ![s] = [kind |-> "error", reply |-> NoReply, err |-> err]]
    /\ responses' = [responses EXCEPT ![s] = Append(@, withCORS(Err(err), request[s]))]
    /\ pc' = [pc EXCEPT ![s] = "responded"]
    /\ UNCHANGED <<request, calls>>

\* resp.text() rejects after fetch had resolved: the same catch answers.
BodyFails(s, err) ==
    /\ pc[s] = "receiving"
    /\ upstream' = [upstream EXCEPT ![s] = [kind |-> "aborted", reply |-> NoReply, err |-> err]]
    /\ responses' = [responses EXCEPT ![s] = Append(@, withCORS(Err(err), request[s]))]
    /\ pc' = [pc EXCEPT ![s] = "responded"]
    /\ UNCHANGED <<request, calls>>

\* The response has been sent; nothing of the request is kept.
Finish(s) ==
    /\ pc[s] = "responded"
    /\ pc' = [pc EXCEPT ![s] = "idle"]
    /\ request' = [request EXCEPT ![s] = NoRequest]
    /\ calls' = [calls EXCEPT ![s] = <<>>]
    /\ responses' = [responses EXCEPT ![s] = <<>>]
    /\ upstream' = [upstream EXCEPT ![s] = NoOutcome]

Next ==
    \/ \E r \in BodyRequests, now \in Clock : Handle("a", r, now)
    \/ \E r \in PublicRequests, now \in Clock : Handle("a", r, now)
    \/ \E r \in ProbeRequests, now \in Clock : Handle("a", r, now)
    \/ \E r \in ConcurrentRequests, now \in Clock : Handle("b", r, now)
    \/ \E s \in Slots : BodyRead(s)
    \/ \E s \in Slots : \E head \in HeadsFor(s) \cap BodylessHeads : FetchResolve(s, head)
    \/ \E s \in Slots : \E head \in HeadsFor(s) \ BodylessHeads : FetchResolve(s, head)
    \/ \E s \in Slots : \E body \in UpstreamBodies : BodyArrives(s, body)
    \/ \E s \in Slots : \E err \in ErrorsFor(s) : FetchReject(s, err)
    \/ \E s \in Slots : \E err \in ErrorsFor(s) : BodyFails(s, err)
    \/ \E s \in Slots : Finish(s)

Spec == Init /\ [][Next]_vars

(* ======================= properties of the relay ======================= *)

\* The route handler the request of slot s is dispatched to ("" for none).
TheRoute(s) == Route(request[s].method, request[s].path)

\* The request of slot s is in flight.
InHand(s) == pc[s] # "idle"

\* Its handler has read what it validates and has answered or fetched.
Decided(s) == pc[s] \in {"awaiting", "receiving", "responded"}

\* The JSON body carries no usable value for a field: it is not an object,
\* or the field is absent or empty.
Lacks(s, v) == request[s].body.kind # "object" \/ Falsy(v)

\* Reading the text between the quotes of a JSON string literal: a
\* backslash begins an escape when an even number of backslashes stand
\* directly before it.
BackslashesBefore(s, i) ==
    IF \A j \in 1..(i - 1) : s[j] = 92 THEN i - 1
    ELSE i - 1 - (CHOOSE j \in 1..(i - 1) : s[j] # 92 /\ \A k \in (j + 1)..(i - 1) : s[k] = 92)
BeginsEscape(s, i) == s[i] = 92 /\ BackslashesBefore(s, i) % 2 = 0
BeginsUnicodeEscape(s, i) == BeginsEscape(s, i) /\ i < Len(s) /\ s[i + 1] = 117
InsideEscape(s, i) ==
    \/ i > 1 /\ BeginsEscape(s, i - 1)
    \/ \E k \in 2..5 : i - k >= 1 /\ BeginsUnicodeEscape(s, i - k)

\* The text between the quotes of a JSON string literal is well formed ...
JsonStringOk(s) ==
    \A i \in 1..Len(s) :
        IF InsideEscape(s, i) THEN TRUE
        ELSE IF BeginsUnicodeEscape(s, i)
        THEN i + 5 <= Len(s) /\ \A k \in 2..5 : IsHexDigit(s[i + k])
        ELSE IF BeginsEscape(s, i)
        THEN i < Len(s) /\ s[i + 1] \in {34, 92, 47, 98, 102, 110, 114, 116}
        ELSE s[i] >= 32 /\ s[i] # 34

\* ... and the string it denotes, as JSON.parse reads it.
JsonUnquote(s) ==
    Concat([i \in 1..Len(s) |->
        IF InsideEscape(s, i) THEN <<>>
        ELSE IF BeginsUnicodeEscape(s, i)
        THEN <<(4096 * HexValue(s[i + 2])) + (256 * HexValue(s[i + 3]))
                + (16 * HexValue(s[i + 4])) + HexValue(s[i + 5])>>
        ELSE IF BeginsEscape(s, i)
        THEN <<CASE s[i + 1] = 98 -> 8 [] s[i + 1] = 102 -> 12 [] s[i + 1] = 110 -> 10
                 [] s[i + 1] = 114 -> 13 [] s[i + 1] = 116 -> 9 [] OTHER -> s[i + 1]>>
        ELSE <<s[i]>>])

\* "{\"ok\":false,\"message\":\"" and "\"}"
ErrorJsonOpening == <<123, 34, 111, 107, 34, 58, 102, 97, 108, 115, 101, 44, 34, 109, 101, 115, 115, 97, 103, 101, 34, 58, 34>>
ErrorJsonClosing == <<34, 125>>

\* The text of a response body, and what lies between the opening and the
\* closing of an error body.
BodyText(body) == Utf8Decode(body.bytes)
QuotedMessage(body) ==
    SubSeq(BodyText(body), Len(ErrorJsonOpening) + 1,
           Len(BodyText(body)) - Len(ErrorJsonClosing))

\* The body is the JSON text of { ok: false, message } for some string
\* message ...
IsErrorJson(body) ==
    /\ ~body.null
    /\ Len(BodyText(body)) >= Len(ErrorJsonOpening) + Len(ErrorJsonClosing)
    /\ SubSeq(BodyText(body), 1, Len(ErrorJsonOpening)) = ErrorJsonOpening
    /\ SubSeq(BodyText(body), Len(BodyText(body)) - Len(ErrorJsonClosing) + 1,
              Len(BodyText(body))) = ErrorJsonClosing
    /\ JsonStringOk(QuotedMessage(body))

\* ... and that message.
MessageOf(body) == JsonUnquote(QuotedMessage(body))

\* No upstream call was or is made for the request, and once its handler
\* has decided the request has its one response, of the given status.
AnsweredLocally(s, status) ==
    /\ calls[s] = <<>>
    /\ Decided(s) => /\ pc[s] = "responded"
                     /\ Len(responses[s]) = 1
                     /\ responses[s][1].status = status

Answered(s, status) ==
    /\ pc[s] = "responded"
    /\ calls[s] = <<>>
    /\ Len(responses[s]) = 1
    /\ responses[s][1].status = status

FixedPathRoutes == {"proxyOpenOrders", "proxyFiatOrders", "proxyFiatPayments"}

\* C1: on each of the four signed POST routes (/proxySigned,
\* /proxyOpenOrders, /proxyFiatOrders, /proxyFiatPayments) a body that lacks
\* apiKey or lacks queryString is answered 400 and causes no upstream call.
C1_Original ==
    \A s \in Slots :
        (InHand(s) /\ TheRoute(s) \in FixedPathRoutes \cup {"proxySigned"}
            /\ (Lacks(s, request[s].body.apiKey) \/ Lacks(s, request[s].body.queryString)))
        => AnsweredLocally(s, 400)

\* C2: whenever the upstream call completes, the relay's response has
\* exactly the upstream's status code and exactly the upstream's body.
C2_RoundTrip ==
    \A s \in Slots :
        upstream[s].kind = "reply"
        => /\ Len(responses[s]) = 1
           /\ responses[s][1].status = upstream[s].reply.status
           /\ responses[s][1].body.bytes = upstream[s].reply.body

\* The value of the first "endpoint" query parameter of a request.
EndpointParam(req) ==
    req.searchParams[CHOOSE i \in 1..Len(req.searchParams) :
        /\ req.searchParams[i].k = EndpointName
        /\ \A j \in 1..(i - 1) : req.searchParams[j].k # EndpointName].v

HasEndpointParam(req) ==
    \E i \in 1..Len(req.searchParams) : req.searchParams[i].k = EndpointName

\* The endpoint of the request of slot s is missing or malformed.
EndpointMalformed(s) ==
    \/ /\ TheRoute(s) = "proxyPublic"
       /\ (~HasEndpointParam(request[s]) \/ ~StartsWithSlash(EndpointParam(request[s])))
    \/ /\ TheRoute(s) = "proxySigned"
       /\ \/ request[s].body.kind # "object"
          \/ request[s].body.endpoint.t # "string"
          \/ ~StartsWithSlash(request[s].body.endpoint.s)

\* C3: on /proxyPublic and /proxySigned a missing or malformed endpoint
\* (absent, empty, not beginning with "/", not a string, or in a body that is
\* not an object) is answered 400 with a JSON body {ok:false, message},
\* never 500, and no upstream call is made.
C3_EndpointRejected ==
    \A s \in Slots :
        (InHand(s) /\ EndpointMalformed(s))
        => /\ AnsweredLocally(s, 400)
           /\ Decided(s) => IsErrorJson(responses[s][1].body)

\* The text of an error: its message, or its name when it has no message.
TextOfError(err) == IF err.message = <<>> THEN err.name ELSE err.message

\* C4: when the upstream call fails with a transport exception - fetch
\* rejects, or the reply's body cannot be read - the exception does not
\* escape: the request is answered, once, with status 500 and a body that
\* is the JSON text of {ok:false, message:<error text>}, so that parsing the
\* body gives back the error's text.
C4_TransportFailure ==
    \A s \in Slots :
        upstream[s].kind \in {"error", "aborted"}
        => /\ pc[s] = "responded"
           /\ Len(responses[s]) = 1
           /\ responses[s][1].status = 500
           /\ IsErrorJson(responses[s][1].body)
           /\ MessageOf(responses[s][1].body) = TextOfError(upstream[s].err)

\* A failure of the keep-alive call whose message needs escaping in JSON,
\* answered while a second request is still waiting for its own upstream
\* call.
C4_Witness ==
    /\ upstream["a"].kind = "error"
    /\ \E i \in 1..Len(upstream["a"].err.message) :
            upstream["a"].err.message[i] \in {10, 34, 92}
    /\ TheRoute("a") = "keepAlive"
    /\ Len(responses["a"]) = 1 /\ responses["a"][1].status = 500
    /\ MessageOf(responses["a"][1].body) = upstream["a"].err.message
    /\ pc["b"] = "awaiting"

HasHeader(resp, name, value) ==
    name \in DOMAIN resp.headers /\ resp.headers[name] = value

\* The headers every response is to carry besides Allow-Origin.
CorsAndCacheHeaders(resp) ==
    /\ HasHeader(resp, "access-control-allow-methods", "GET, POST, PUT, OPTIONS")
    /\ "access-control-allow-headers" \in DOMAIN resp.headers
    /\ resp.headers["access-control-allow-headers"] # ""
    /\ HasHeader(resp, "cache-control",
                 "no-store, no-cache, must-revalidate, proxy-revalidate")
    /\ HasHeader(resp, "pragma", "no-cache")
    /\ HasHeader(resp, "expires", "0")

\* The value of the request's Origin header, "*" when it has none.
OriginHeader(req) ==
    IF "origin" \in DOMAIN req.headers THEN req.headers["origin"] ELSE "*"

\* C5: every response returned, on every exit path, carries
\* Access-Control-Allow-Origin equal to the request's Origin header (or "*"
\* when the request has none), the Allow-Methods and Allow-Headers headers
\* and the cache-suppression headers, whatever the inner or upstream
\* response held.
C5_Original ==
    \A s \in Slots : \A i \in 1..Len(responses[s]) :
        /\ HasHeader(responses[s][i], "access-control-allow-origin", OriginHeader(request[s]))
        /\ CorsAndCacheHeaders(responses[s][i])

\* The Origin a request names: an Origin header with an empty value names
\* none.
NamedOrigin(req) ==
    IF "origin" \in DOMAIN req.headers /\ req.headers["origin"] # ""
    THEN req.headers["origin"] ELSE "*"

\* C5 amended: every response returned, on every exit path, carries
\* Access-Control-Allow-Origin equal to the request's Origin header when that
\* header is present and not empty and "*" when it is absent or empty, the
\* Allow-Methods and Allow-Headers headers and the cache-suppression
\* headers, whatever the inner or upstream response held.
C5_Amended ==
    \A s \in Slots : \A i \in 1..Len(responses[s]) :
        /\ HasHeader(responses[s][i], "access-control-allow-origin", NamedOrigin(request[s]))
        /\ CorsAndCacheHeaders(responses[s][i])

\* A forwarded upstream reply that itself carried CORS and cache headers,
\* for a request whose Origin header is empty, next to the response of a
\* request that names an Origin.
C5_Witness ==
    /\ upstream["a"].kind = "reply"
    /\ "access-control-allow-origin" \in DOMAIN upstream["a"].reply.headers
    /\ "cache-control" \in DOMAIN upstream["a"].reply.headers
    /\ upstream["a"].reply.status = 400
    /\ "origin" \in DOMAIN request["a"].headers /\ request["a"].headers["origin"] = ""
    /\ Len(responses["a"]) = 1 /\ responses["a"][1].status = 400
    /\ HasHeader(responses["a"][1], "access-control-allow-origin", "*")
    /\ Len(responses["b"]) = 1
    /\ HasHeader(responses["b"][1], "access-control-allow-origin", "https://other.example")

\* C6: a request with method OPTIONS, whatever its path and body, is
\* answered 204 with no body and causes no upstream call.
C6_Preflight ==
    \A s \in Slots :
        (InHand(s) /\ request[s].method = "OPTIONS")
        => Answered(s, 204) /\ responses[s][1].body.null

C6_Witness ==
    /\ request["a"].method = "OPTIONS"
    /\ request["a"].path = "/proxySigned"
    /\ request["a"].body.kind = "object"
    /\ Answered("a", 204)

\* C7: the upstream GET of /proxyPublic goes to base+endpoint and carries
\* every (name, value) pair of the inbound query other than "endpoint",
\* pairs of the same name included, and no "endpoint" parameter.
C7_ForwardsEveryParam ==
    \A s \in Slots :
        (TheRoute(s) = "proxyPublic" /\ Len(calls[s]) = 1)
        => LET u == ParseURL(calls[s][1].url)
               sent == FormParse(u.query)
           IN /\ calls[s][1].method = "GET"
              /\ u.path = ParseURL(BINANCE \o EndpointParam(request[s])).path
              /\ \A i \in 1..Len(request[s].searchParams) :
                    request[s].searchParams[i].k # EndpointName
                    => \E j \in 1..Len(sent) : sent[j] = request[s].searchParams[i]
              /\ \A j \in 1..Len(sent) : sent[j].k # EndpointName

\* The fixed upstream path of a route.
TargetPath(route) ==
    CASE route = "proxyOpenOrders" -> <<47, 97, 112, 105, 47, 118, 51, 47, 111, 112, 101, 110, 79, 114, 100, 101, 114, 115>>
      [] route = "proxyFiatOrders" -> <<47, 115, 97, 112, 105, 47, 118, 49, 47, 102, 105, 97, 116, 47, 111, 114, 100, 101, 114, 115>>
      [] route = "proxyFiatPayments" -> <<47, 115, 97, 112, 105, 47, 118, 49, 47, 102, 105, 97, 116, 47, 112, 97, 121, 109, 101, 110, 116, 115>>
      [] route \in {"createListenKey", "keepAlive"} -> <<47, 97, 112, 105, 47, 118, 51, 47, 117, 115, 101, 114, 68, 97, 116, 97, 83, 116, 114, 101, 97, 109>>

\* "https://api.binance.com"
Base == <<104, 116, 116, 112, 115, 58, 47, 47, 97, 112, 105, 46, 98, 105, 110, 97, 110, 99, 101, 46, 99, 111, 109>>

StartsWith(s, prefix) == Len(s) >= Len(prefix) /\ SubSeq(s, 1, Len(prefix)) = prefix
EndsWith(s, suffix) ==
    Len(s) >= Len(suffix) /\ SubSeq(s, Len(s) - Len(suffix) + 1, Len(s)) = suffix

\* Text made of unreserved characters and %XX escapes only.
IsUrlEncoded(e) ==
    \A i \in 1..Len(e) :
        IF e[i] = 37 THEN i + 2 <= Len(e) /\ IsHexDigit(e[i + 1]) /\ IsHexDigit(e[i + 2])
        ELSE IsAlphanumeric(e[i]) \/ e[i] \in {45, 95, 46, 33, 126, 42, 39, 40, 41}

\* The call c of slot s uses the method and target of its route.  The
\* target is compared as text: base+endpoint followed by the queryString
\* for /proxySigned, base+path+"?"+queryString for the fixed paths, and for
\* PUT /listenKey base+path+"?listenKey="+E where E is URL-encoded text that
\* decodes to the listenKey.
UsesTarget(s, c) ==
    LET route == TheRoute(s)
        body == request[s].body
    IN CASE route = "proxySigned" ->
                /\ c.method = "GET"
                /\ StartsWith(c.url, Base \o StringOf(body.endpoint))
                /\ ~Falsy(body.queryString) => EndsWith(c.url, StringOf(body.queryString))
         [] route \in FixedPathRoutes ->
                /\ c.method = "GET"
                /\ c.url = Base \o TargetPath(route) \o <<63>> \o StringOf(body.queryString)
         [] route = "createListenKey" ->
                /\ c.method = "POST"
                /\ c.url = Base \o TargetPath(route)
         [] route = "keepAlive" ->
                /\ c.method = "PUT"
                /\ StartsWith(c.url, Base \o TargetPath(route) \o <<63, 108, 105, 115, 116, 101, 110, 75, 101, 121, 61>>)
                /\ LET e == SubSeq(c.url, Len(Base \o TargetPath(route)) + 12, Len(c.url))
                   IN /\ IsUrlEncoded(e)
                      /\ Utf8Decode(PercentDecode(e)) = StringOf(body.listenKey)
         [] OTHER -> FALSE

\* C8: every upstream call of a signed route carries X-MBX-APIKEY equal to
\* the apiKey of the request and uses the route's method and target: GET for
\* the four proxy routes, POST base+/api/v3/userDataStream for
\* POST /listenKey, PUT base+/api/v3/userDataStream?listenKey=<URL-encoded
\* listenKey> for PUT /listenKey; the call of /proxyPublic carries no
\* API-key header.
C8_Original ==
    \A s \in Slots : \A i \in 1..Len(calls[s]) :
        IF TheRoute(s) = "proxyPublic"
        THEN "x-mbx-apikey" \notin DOMAIN calls[s][i].headers
        ELSE /\ "x-mbx-apikey" \in DOMAIN calls[s][i].headers
             /\ calls[s][i].headers["x-mbx-apikey"] = StringOf(request[s].body.apiKey)
             /\ UsesTarget(s, calls[s][i])

\* The spaces, tabs, CRs and LFs that begin and end a text taken away.
IsBlank(c) == c \in {9, 10, 13, 32}
Trimmed(s) ==
    IF \A i \in 1..Len(s) : IsBlank(s[i]) THEN <<>>
    ELSE LET first == CHOOSE i \in 1..Len(s) :
                          ~IsBlank(s[i]) /\ \A j \in 1..(i - 1) : IsBlank(s[j])
             last == CHOOSE i \in 1..Len(s) :
                          ~IsBlank(s[i]) /\ \A j \in (i + 1)..Len(s) : IsBlank(s[j])
         IN SubSeq(s, first, last)

\* C8 amended: every upstream call of a signed route carries X-MBX-APIKEY
\* equal to the apiKey of the request as a string, without the spaces, tabs,
\* CRs and LFs that begin and end it, and uses the route's method and
\* target as in C8; the call of /proxyPublic carries no API-key header.
C8_Amended ==
    \A s \in Slots : \A i \in 1..Len(calls[s]) :
        IF TheRoute(s) = "proxyPublic"
        THEN "x-mbx-apikey" \notin DOMAIN calls[s][i].headers
        ELSE /\ "x-mbx-apikey" \in DOMAIN calls[s][i].headers
             /\ calls[s][i].headers["x-mbx-apikey"]
                    = Trimmed(StringOf(request[s].body.apiKey))
             /\ UsesTarget(s, calls[s][i])

\* A keep-alive call for a listenKey that needs escaping, made with an
\* apiKey that came between a space and a tab.
C8_Witness ==
    /\ TheRoute("a") = "keepAlive"
    /\ Len(calls["a"]) = 1
    /\ \E i \in 1..Len(request["a"].body.listenKey.s) :
            request["a"].body.listenKey.s[i] \in {32, 38, 47}
    /\ IsBlank(request["a"].body.apiKey.s[1])
    /\ ~IsBlank(calls["a"][1].headers["x-mbx-apikey"][1])
    /\ Len(calls["b"]) = 1

\* The request of slot s matches a forwarding route and carries every input
\* the route requires: the endpoint parameter, beginning with "/", for
\* /proxyPublic; apiKey, endpoint beginning with "/" and queryString for
\* /proxySigned; apiKey and queryString for the fixed paths; apiKey for
\* POST /listenKey; apiKey and listenKey for PUT /listenKey.
PassesValidation(s) ==
    LET route == TheRoute(s)
        body == request[s].body
    IN CASE route = "proxyPublic" ->
                HasEndpointParam(request[s]) /\ StartsWithSlash(EndpointParam(request[s]))
         [] route = "proxySigned" ->
                /\ ~Lacks(s, body.apiKey) /\ ~Lacks(s, body.queryString)
                /\ body.endpoint.t = "string" /\ StartsWithSlash(body.endpoint.s)
         [] route \in FixedPathRoutes ->
                ~Lacks(s, body.apiKey) /\ ~Lacks(s, body.queryString)
         [] route = "createListenKey" -> ~Lacks(s, body.apiKey)
         [] route = "keepAlive" -> ~Lacks(s, body.apiKey) /\ ~Lacks(s, body.listenKey)
         [] OTHER -> FALSE

ExpectedCalls(s) == IF PassesValidation(s) THEN 1 ELSE 0

\* C9: a request causes exactly one upstream call when it matches a
\* forwarding route and passes validation and none otherwise (OPTIONS,
\* /__health, unmatched routes, validation failures), never two; and it
\* never receives more than one response, having exactly one once it is
\* answered.
C9_OneCallOneResponse ==
    \A s \in Slots :
        InHand(s)
        => /\ Len(calls[s]) <= 1
           /\ Len(responses[s]) <= 1
           /\ Decided(s) => Len(calls[s]) = ExpectedCalls(s)
           /\ pc[s] = "responded" => Len(responses[s]) = 1

\* What stands between "https://" and the path, query or fragment of a URL
\* text: the URL parser ends the authority at the first "/", "\", "?" or "#".
Authority(url) ==
    LET rest == SubSeq(URLInput(url), 9, Len(URLInput(url)))
    IN SubSeq(rest, 1, IndexOf(rest, {47, 92, 63, 35}) - 1)

\* C10: every upstream call goes to scheme https and host api.binance.com,
\* whatever the endpoint, the query parameters and the body fields of the
\* request.  An authority that reads "api.binance.com" holds no userinfo and
\* no port and is that host.
C10_UpstreamHost ==
    \A s \in Slots : \A i \in 1..Len(calls[s]) :
        /\ StartsWith(URLInput(calls[s][i].url), <<104, 116, 116, 112, 115, 58, 47, 47>>)
        /\ Authority(calls[s][i].url) = <<97, 112, 105, 46, 98, 105, 110, 97, 110, 99, 101, 46, 99, 111, 109>>

\* A signed call whose endpoint begins "/@", made while a second request
\* has its own call in flight.
C10_Witness ==
    /\ TheRoute("a") = "proxySigned"
    /\ Len(calls["a"]) = 1
    /\ request["a"].body.endpoint.t = "string"
    /\ StartsWith(request["a"].body.endpoint.s, <<47, 64>>)
    /\ pc["b"] = "awaiting"

====
